---- MODULE Spec2Model ----
(***************************************************************************)
(* Model of rust/web-ui-backend/src/standalone.rs: the configuration       *)
(* resolver (Config::load, Config::cert_file), the device selector         *)
(* (device), the warm-up orchestrator (AppStateInner::new), the session    *)
(* factory (stream_handler, handle_socket) and the admission server (run). *)
(*                                                                         *)
(* Strings are sequences of chunks.  A chunk is a literal piece of text or *)
(* an environment placeholder.  Optional records are records whose kind    *)
(* is "none".                                                              *)
(***************************************************************************)
EXTENDS Integers, Sequences, FiniteSets, TLC

VARIABLES
    \* the process environment
    env,                \* environment variables: a function on the set ones
    fs,                 \* the file system: path -> "absent" | "file" | "dir"
    file,               \* the configuration file Config::load reads
    cuda_is_available,  \* candle::utils::cuda_is_available()
    metal_is_available, \* candle::utils::metal_is_available()
    encodec_file_config,\* the codec configuration the codec model file holds
    \* Config::load / Config::cert_file, called on their own
    loadRes,            \* the Result of the last Config::load
    certRes,            \* the Result of the last Config::cert_file
    config,             \* the Config value (self, and run's config)
    \* run and AppStateInner::new
    args,               \* StandaloneArgs
    pc,                 \* the statement run is at
    hist,               \* the steps completed so far, in order
    device_ret,         \* what device(args.cpu) returned
    decode_ret,         \* what encodec_model.decode_step returned
    new_ret,            \* what AppStateInner::new returned
    run_ret,            \* what run returned
    failed_at,          \* the step whose error was propagated
    cert_pem, key_pem, tls_config, sock_addr,          \* locals of run
    device, dtype, lm_model, encodec_device,
    encodec_model, text_tokenizer,                     \* locals of new
    warmup,             \* locals of the warm-up block of new
    state,              \* Arc<AppStateInner>
    listener,           \* the socket the server serves on
    conns,              \* the connections accepted so far
    log                 \* tracing events

envVars == <<env, fs, file, cuda_is_available, metal_is_available, encodec_file_config>>
cfgVars == <<loadRes, certRes>>
runLocals == <<cert_pem, key_pem, tls_config, sock_addr>>
newLocals == <<device, dtype, lm_model, encodec_device, encodec_model, text_tokenizer, warmup>>
callRets == <<device_ret, decode_ret>>
retVars == <<callRets, new_ret, run_ret, failed_at>>
srvVars == <<state, listener, conns, log>>
runVars == <<args, pc, hist, retVars, runLocals, newLocals, srvVars>>
vars == <<envVars, cfgVars, config, runVars>>

-----------------------------------------------------------------------------
(* Bounds *)

\* longest configuration template, in chunks
MaxTplLen == 2

\* largest sample rate and frame rate of a codec, beside 24000 / 75
MaxRate == 3

\* connections accepted in one run
MaxConns == 2

-----------------------------------------------------------------------------
(* Results *)

Ok(v) == [ok |-> TRUE, val |-> v]
Err(e) == [ok |-> FALSE, err |-> e]
NoResult == [ok |-> FALSE, err |-> "unset"]

Range(s) == {s[i] : i \in 1..Len(s)}

-----------------------------------------------------------------------------
(* Strings, templates and the environment *)

EnvNames == {"X", "Y"}
Placeholders == {"${X}", "${Y}"}
Literals == {"d"}
Chunks == Literals \cup Placeholders

PlaceholderName(c) == IF c = "${X}" THEN "X" ELSE "Y"

\* the values a set variable may have, by variable
EnvValue == [X |-> <<"v">>, Y |-> <<"u", "w">>]
Envs == {[n \in S |-> EnvValue[n]] : S \in SUBSET EnvNames}

Templates == UNION {[1..n -> Chunks] : n \in 0..MaxTplLen}

\* std::env::var(name), the empty string when the variable is unset
EnvVar(e, name) == IF name \in DOMAIN e THEN e[name] ELSE <<>>

\* crate::utils::replace_env_vars: every placeholder chunk becomes the
\* variable's value, the empty string when the variable is unset; the
\* substituted text is not scanned again.
RECURSIVE replace_env_vars(_, _)
replace_env_vars(e, s) ==
    IF s = <<>> THEN <<>>
    ELSE (IF Head(s) \in Placeholders
          THEN EnvVar(e, PlaceholderName(Head(s)))
          ELSE <<Head(s)>>) \o replace_env_vars(e, Tail(s))

-----------------------------------------------------------------------------
(* Config (lines 8-42).  The streaming configuration is flattened into the *)
(* same record, as it is in the file.                                      *)

PathFields ==
    {"static_dir", "cert_dir", "log_dir", "text_tokenizer_file",
     "encodec_model_file", "lm_model_file"}

\* A document of the configuration file: the path-like fields as written,
\* then the fields load leaves alone.
Doc(paths, addr, use_cpu) ==
    [static_dir |-> paths["static_dir"],
     cert_dir |-> paths["cert_dir"],
     log_dir |-> paths["log_dir"],
     text_tokenizer_file |-> paths["text_tokenizer_file"],
     encodec_model_file |-> paths["encodec_model_file"],
     lm_model_file |-> paths["lm_model_file"],
     addr |-> addr,
     port |-> 8998,
     encodec_num_codebooks |-> 8,
     use_cpu_for_encodec |-> use_cpu]

\* The documents the configuration file may hold: every path-like field but
\* the certificate directory starts with a literal chunk of its own; the
\* certificate directory carries one template and the other fields another.
FileDoc(t1, t2) ==
    Doc([f \in PathFields |-> IF f = "cert_dir" THEN t1 ELSE <<f>> \o t2],
        <<"${X}">>, FALSE)

FileDocs == {FileDoc(t1, t2) : t1 \in Templates, t2 \in Templates}

Unreadable == [unreadable |-> TRUE]
Malformed == [malformed |-> TRUE]
Files == FileDocs \cup {Unreadable, Malformed}

NoConfig == [none |-> TRUE]

\* the fields substituted when the line of log_dir is left out
SubstitutedFieldsButLogDir == PathFields \ {"log_dir"}

\* the fields lines 23-30 substitute
SubstitutedFields == PathFields

\* lines 22-31, on a file that parses
LoadedConfig(doc, e) ==
    [f \in DOMAIN doc |->
        IF f \in SubstitutedFields THEN replace_env_vars(e, doc[f]) ELSE doc[f]]

\* Config::load
LoadResult(f, e) ==
    IF f = Unreadable THEN Err("FileIO")
    ELSE IF f = Malformed THEN Err("Malformed")
    ELSE Ok(LoadedConfig(f, e))

\* Path::is_absolute
IsAbsolute(name) == name # <<>> /\ Head(name) = "/"

\* PathBuf::join: an absolute name replaces the directory
Join(dir, name) == IF IsAbsolute(name) THEN name ELSE dir \o name

FileKinds == {"absent", "file", "dir"}

\* Path::exists, where Path::is_file is called
exists(f, p) == p \in DOMAIN f /\ f[p] # "absent"

\* Path::is_file
is_file(f, p) == p \in DOMAIN f /\ f[p] = "file"

\* Config::cert_file
cert_file(self, f, name) ==
    LET cert_dir == self.cert_dir
        cert_file_path == Join(cert_dir, name)
    IN IF ~ is_file(f, cert_file_path)
       THEN Err("MissingFile")
       ELSE Ok(cert_file_path)

-----------------------------------------------------------------------------
(* device (lines 44-55) *)

Cpu == [kind |-> "Cpu"]
Cuda(ordinal) == [kind |-> "Cuda", ordinal |-> ordinal]
Metal(ordinal) == [kind |-> "Metal", ordinal |-> ordinal]
NoDevice == [kind |-> "none"]

\* Device::new_cuda and Device::new_metal: the driver builds the device or
\* reports an error
new_cuda(ordinal, built) == IF built THEN Ok(Cuda(ordinal)) ELSE Err("DeviceInit")
new_metal(ordinal, built) == IF built THEN Ok(Metal(ordinal)) ELSE Err("DeviceInit")

\* device with the two accelerator branches exchanged
select_device_metal_first(cpu, cuda_available, metal_available, built) ==
    IF cpu THEN Ok(Cpu)
    ELSE IF metal_available THEN new_metal(0, built)
    ELSE IF cuda_available THEN new_cuda(0, built)
    ELSE Ok(Cpu)

\* fn device(cpu: bool) -> Result<Device>.  built: whether the driver builds
\* the accelerator device asked for.
select_device(cpu, cuda_available, metal_available, built) ==
    IF cpu THEN Ok(Cpu)
    ELSE IF cuda_available THEN new_cuda(0, built)
    ELSE IF metal_available THEN new_metal(0, built)
    ELSE Ok(Cpu)

\* Device::is_cuda
is_cuda(d) == d.kind = "Cuda"

\* line 60 with the test "is not the CPU" in place of is_cuda
select_dtype_any_accelerator(d) == IF d.kind # "Cpu" THEN "BF16" ELSE "F32"

\* line 60
select_dtype(d) == IF is_cuda(d) THEN "BF16" ELSE "F32"

\* lines 62-63 with the flag ignored
select_encodec_device_ignoring_flag(use_cpu_for_encodec, d) == d

\* lines 62-63
select_encodec_device(use_cpu_for_encodec, d) ==
    IF use_cpu_for_encodec THEN Cpu ELSE d

-----------------------------------------------------------------------------
(* The models.  steps is the streaming state of a model: the number of     *)
(* steps it has run since it was loaded.                                   *)

NoModel == [kind |-> "none"]
NoTokenizer == [kind |-> "none"]
NoTensor == [kind |-> "none"]

\* moshi::lm::load_streaming
LmModel(path, dt, d) ==
    [kind |-> "lm", file |-> path, dtype |-> dt, device |-> d, steps |-> 0]

\* moshi::encodec::load; cfg is the codec configuration of the model
EncodecModel(path, codebooks, d, cfg) ==
    [kind |-> "encodec", file |-> path, num_codebooks |-> codebooks,
     device |-> d, sample_rate |-> cfg[1], frame_rate |-> cfg[2], steps |-> 0]

\* sentencepiece::SentencePieceProcessor::open
Tokenizer(path) == [kind |-> "tokenizer", file |-> path]

\* one streaming step of a model (forward, depformer_sample, encode_step,
\* decode_step all take &mut self)
Stepped(m) == [m EXCEPT !.steps = @ + 1]

\* Clone::clone of a model: the streaming state is copied with it
Clone(m) == m

\* line 80 without the ceil: the quotient truncated by "as usize"
frame_length_truncated(sample_rate, frame_rate) == sample_rate \div frame_rate

\* line 80: (sample_rate / frame_rate).ceil() as usize, on rates that are
\* whole numbers
frame_length(sample_rate, frame_rate) ==
    IF sample_rate % frame_rate = 0
    THEN sample_rate \div frame_rate
    ELSE sample_rate \div frame_rate + 1

\* Tensor::zeros(shape, dtype, device)
Zeros(shape, dt, d) == [kind |-> "tensor", shape |-> shape, dtype |-> dt, device |-> d]

-----------------------------------------------------------------------------
(* run (lines 112-136) and AppStateInner::new (lines 57-93), one action    *)
(* per statement.  An error leaves through the ? of the statement: new and *)
(* run return it and every local is dropped.                               *)

NoPath == <<>>
NoTls == [kind |-> "none"]
NoAddr == [kind |-> "none"]
NoState == [kind |-> "none"]
NoWarmup ==
    [lm_model |-> NoModel, ys |-> "none", encodec_model |-> NoModel,
     frame_length |-> 0, fake_pcm |-> NoTensor, codes |-> "none"]

Event(ev, conn, info) == [ev |-> ev, conn |-> conn, info |-> info]

CodecConfigs ==
    {<<24000, 75>>} \cup {<<s, f>> : s \in 1..MaxRate, f \in 1..MaxRate}

\* the statements of AppStateInner::new with the codec warmed up before
\* the language model
NewOrderCodecFirst ==
    <<"device", "lm_model", "encodec_model", "text_tokenizer", "warming_up",
      "fake_pcm", "encode_step", "decode_step", "check_output", "forward",
      "depformer_sample", "synchronize", "new">>

\* the statements of AppStateInner::new with the synchronization ahead of
\* the warm-up passes
NewOrderSyncBeforeWarmup ==
    <<"device", "lm_model", "encodec_model", "text_tokenizer", "synchronize",
      "warming_up", "forward", "depformer_sample", "fake_pcm", "encode_step",
      "decode_step", "check_output", "new">>

\* the statements of AppStateInner::new, in the order of lines 59-91
NewOrder ==
    <<"device", "lm_model", "encodec_model", "text_tokenizer", "warming_up",
      "forward", "depformer_sample", "fake_pcm", "encode_step", "decode_step",
      "check_output", "synchronize", "new">>

NewSteps == Range(NewOrder)

\* the statements of run with the server bound before the state is built
RunOrderBindFirst ==
    <<"cert_pem", "key_pem", "tls_config", "sock_addr", "router", "bind">>
    \o NewOrder \o <<"serving">>

\* the statements of run with the TLS context built before key.pem is
\* looked up
RunOrderTlsBeforeKey ==
    <<"cert_pem", "tls_config", "key_pem", "sock_addr">> \o NewOrder
    \o <<"router", "bind", "serving">>

\* the statements of run, in the order of lines 113-134; serving is the
\* await of line 134
RunOrder ==
    <<"cert_pem", "key_pem", "tls_config", "sock_addr">> \o NewOrder
    \o <<"router", "bind", "serving">>

\* the statement after a statement
After(step) ==
    LET i == CHOOSE i \in 1..Len(RunOrder) : RunOrder[i] = step
    IN RunOrder[i + 1]

\* the error kind of the error a failing statement propagates
ErrKind(step) ==
    CASE step \in {"cert_pem", "key_pem"} -> "MissingFile"
      [] step = "tls_config" -> "TlsConfig"
      [] step = "device" -> "DeviceInit"
      [] step \in {"lm_model", "encodec_model"} -> "ModelLoad"
      [] step = "text_tokenizer" -> "TokenizerLoad"
      [] step = "check_output" -> "EmptyOutput"
      [] step = "bind" -> "Bind"
      [] OTHER -> "WarmupFailed"

\* an error returned with the state and the models kept alive
FailKeepingState(step) ==
    /\ pc' = "failed"
    /\ failed_at' = step
    /\ run_ret' = Err(ErrKind(step))
    /\ new_ret' = IF step \in NewSteps THEN Err(ErrKind(step)) ELSE new_ret
    /\ UNCHANGED <<envVars, cfgVars, config, args, hist, runLocals, newLocals, srvVars>>

\* the ? operator on an Err: the error is returned by new (when the
\* statement is one of new) and by run, and every local is dropped
Fail(step) ==
    /\ pc' = "failed"
    /\ failed_at' = step
    /\ run_ret' = Err(ErrKind(step))
    /\ new_ret' = IF step \in NewSteps THEN Err(ErrKind(step)) ELSE new_ret
    /\ cert_pem' = NoPath /\ key_pem' = NoPath
    /\ tls_config' = NoTls /\ sock_addr' = NoAddr
    /\ device' = NoDevice /\ dtype' = "none" /\ lm_model' = NoModel
    /\ encodec_device' = NoDevice /\ encodec_model' = NoModel
    /\ text_tokenizer' = NoTokenizer /\ warmup' = NoWarmup
    /\ state' = NoState
    /\ UNCHANGED <<envVars, cfgVars, config, args, hist, listener, conns, log>>

\* a statement that completed
Done(step) ==
    /\ pc' = After(step)
    /\ hist' = Append(hist, step)
    /\ UNCHANGED <<envVars, cfgVars, config, args>>

\* line 113
RunCertPem ==
    /\ pc = "cert_pem"
    /\ LET r == cert_file(config, fs, <<"cert.pem">>)
       IN IF r.ok
          THEN /\ Done("cert_pem")
               /\ cert_pem' = r.val
               /\ UNCHANGED <<retVars, key_pem, tls_config, sock_addr, newLocals, srvVars>>
          ELSE Fail("cert_pem") /\ UNCHANGED callRets

\* line 114
RunKeyPem ==
    /\ pc = "key_pem"
    /\ LET r == cert_file(config, fs, <<"key.pem">>)
       IN IF r.ok
          THEN /\ Done("key_pem")
               /\ key_pem' = r.val
               /\ UNCHANGED <<retVars, cert_pem, tls_config, sock_addr, newLocals, srvVars>>
          ELSE Fail("key_pem") /\ UNCHANGED callRets

\* lines 115-116: RustlsConfig::from_pem_file; valid: the PEM material parses
RunTlsConfig ==
    /\ pc = "tls_config"
    /\ \E valid \in BOOLEAN :
         IF valid
         THEN /\ Done("tls_config")
              /\ tls_config' = [kind |-> "tls", cert |-> cert_pem, key |-> key_pem]
              /\ UNCHANGED <<retVars, cert_pem, key_pem, sock_addr, newLocals, srvVars>>
         ELSE Fail("tls_config") /\ UNCHANGED callRets

\* IpAddr::from_str
IpAddrs == {<<"0.0.0.0">>, <<"127.0.0.1">>, <<"::1">>}
ParsesAsIp(a) == a \in IpAddrs
Ipv6Localhost == <<"::1">>

\* lines 117-121 with the unspecified address as the fallback
SockAddrUnspecifiedFallback(c) ==
    [kind |-> "addr",
     ip |-> IF ParsesAsIp(c.addr) THEN c.addr ELSE <<"0.0.0.0">>,
     port |-> c.port]

\* lines 117-121
SockAddr(c) ==
    [kind |-> "addr",
     ip |-> IF ParsesAsIp(c.addr) THEN c.addr ELSE Ipv6Localhost,
     port |-> c.port]

RunSockAddr ==
    /\ pc = "sock_addr"
    /\ Done("sock_addr")
    /\ sock_addr' = SockAddr(config)
    /\ UNCHANGED <<retVars, cert_pem, key_pem, tls_config, newLocals, srvVars>>

\* line 59; built: whether the driver builds the accelerator device
NewDevice ==
    /\ pc = "device"
    /\ \E built \in BOOLEAN :
         LET r == select_device(args.cpu, cuda_is_available, metal_is_available, built)
         IN /\ device_ret' = r
            /\ decode_ret' = decode_ret
            /\ IF r.ok
               THEN /\ Done("device")
                    /\ device' = r.val
                    /\ UNCHANGED <<new_ret, run_ret, failed_at, runLocals, dtype,
                                   lm_model, encodec_device, encodec_model,
                                   text_tokenizer, warmup, srvVars>>
               ELSE Fail("device")

\* lines 60-61; loads: whether the file holds a model that loads
NewLmModel ==
    /\ pc = "lm_model"
    /\ \E loads \in BOOLEAN :
         IF loads
         THEN /\ Done("lm_model")
              /\ dtype' = select_dtype(device)
              /\ lm_model' = LmModel(config.lm_model_file, select_dtype(device), device)
              /\ UNCHANGED <<retVars, runLocals, device, encodec_device,
                             encodec_model, text_tokenizer, warmup, srvVars>>
         ELSE Fail("lm_model") /\ UNCHANGED callRets

\* lines 62-68; loads: whether the file holds a model that loads
NewEncodecModel ==
    /\ pc = "encodec_model"
    /\ \E loads \in BOOLEAN :
         IF loads
         THEN /\ Done("encodec_model")
              /\ encodec_device' = select_encodec_device(config.use_cpu_for_encodec, device)
              /\ encodec_model' =
                     EncodecModel(config.encodec_model_file, config.encodec_num_codebooks,
                                  select_encodec_device(config.use_cpu_for_encodec, device),
                                  encodec_file_config)
              /\ UNCHANGED <<retVars, runLocals, device, dtype, lm_model,
                             text_tokenizer, warmup, srvVars>>
         ELSE Fail("encodec_model") /\ UNCHANGED callRets

\* lines 69-70
NewTextTokenizer ==
    /\ pc = "text_tokenizer"
    /\ \E loads \in BOOLEAN :
         IF loads
         THEN /\ Done("text_tokenizer")
              /\ text_tokenizer' = Tokenizer(config.text_tokenizer_file)
              /\ UNCHANGED <<retVars, runLocals, device, dtype, lm_model,
                             encodec_device, encodec_model, warmup, srvVars>>
         ELSE Fail("text_tokenizer") /\ UNCHANGED callRets

\* a statement of the warm-up block: it changes only the block's locals;
\* dret is what decode_step has returned so far
WarmupStep(step, w, dret) ==
    /\ Done(step)
    /\ warmup' = w
    /\ decode_ret' = dret
    /\ UNCHANGED <<device_ret, new_ret, run_ret, failed_at, runLocals, device, dtype,
                   lm_model, encodec_device, encodec_model, text_tokenizer,
                   state, listener, conns>>

\* line 73
WarmLog ==
    /\ pc = "warming_up"
    /\ WarmupStep("warming_up", warmup, decode_ret)
    /\ log' = log \cup {Event("warming up the model", 0, "none")}

\* line 75 run on the loaded language model itself, with no clone
WarmForwardInPlace ==
    /\ pc = "forward"
    /\ Done("forward")
    /\ lm_model' = Stepped(lm_model)
    /\ warmup' = [warmup EXCEPT !.lm_model = Stepped(lm_model), !.ys = "logits"]
    /\ UNCHANGED <<retVars, runLocals, device, dtype, encodec_device,
                   encodec_model, text_tokenizer, srvVars>>

\* lines 74-75: the block's lm_model is a clone, which runs one forward step
WarmForward ==
    /\ pc = "forward"
    /\ \E runs \in BOOLEAN :
         IF runs
         THEN /\ WarmupStep("forward",
                            [warmup EXCEPT !.lm_model = Stepped(Clone(lm_model)),
                                           !.ys = "logits"],
                            decode_ret)
              /\ log' = log
         ELSE Fail("forward") /\ UNCHANGED callRets

\* lines 76-77
WarmDepformerSample ==
    /\ pc = "depformer_sample"
    /\ \E runs \in BOOLEAN :
         IF runs
         THEN /\ WarmupStep("depformer_sample",
                            [warmup EXCEPT !.lm_model = Stepped(@)], decode_ret)
              /\ log' = log
         ELSE Fail("depformer_sample") /\ UNCHANGED callRets

\* lines 78-82; allocated: whether the device allocates the tensor
WarmFakePcm ==
    /\ pc = "fake_pcm"
    /\ \E allocated \in BOOLEAN :
         IF allocated
         THEN /\ LET m == Clone(encodec_model)
                     n == frame_length(m.sample_rate, m.frame_rate)
                 IN WarmupStep("fake_pcm",
                               [warmup EXCEPT !.encodec_model = m,
                                              !.frame_length = n,
                                              !.fake_pcm = Zeros(<<1, 1, n>>, "F32",
                                                                 encodec_device)],
                               decode_ret)
              /\ log' = log
         ELSE Fail("fake_pcm") /\ UNCHANGED callRets

\* line 83
WarmEncodeStep ==
    /\ pc = "encode_step"
    /\ \E runs \in BOOLEAN :
         IF runs
         THEN /\ WarmupStep("encode_step",
                            [warmup EXCEPT !.encodec_model = Stepped(@),
                                           !.codes = "codes"],
                            decode_ret)
              /\ log' = log
         ELSE Fail("encode_step") /\ UNCHANGED callRets

\* line 84; out: what the decoder gives back when it raises no error
WarmDecodeStep ==
    /\ pc = "decode_step"
    /\ \/ \E out \in {"none", "pcm"} :
            /\ WarmupStep("decode_step",
                          [warmup EXCEPT !.encodec_model = Stepped(@)], Ok(out))
            /\ log' = log
       \/ /\ Fail("decode_step")
          /\ decode_ret' = Err(ErrKind("decode_step"))
          /\ UNCHANGED device_ret

\* line 85 with the test the other way round
is_some(ys) == ys.val # "none"

\* line 85: ys.as_option().is_none()
is_none(ys) == ys.val = "none"

\* lines 85-87
WarmCheckOutput ==
    /\ pc = "check_output"
    /\ IF is_none(decode_ret)
       THEN Fail("check_output") /\ UNCHANGED callRets
       ELSE WarmupStep("check_output", warmup, decode_ret) /\ log' = log

\* lines 88-89; drained: whether the pending device work completed
WarmSynchronize ==
    /\ pc = "synchronize"
    /\ \E drained \in BOOLEAN :
         IF drained
         THEN /\ WarmupStep("synchronize", warmup, decode_ret)
              /\ log' = log \cup {Event("model is ready to roll!", 0, "none")}
         ELSE Fail("synchronize") /\ UNCHANGED callRets

\* line 91: Self { lm_model, encodec_model, device, config, text_tokenizer }
AppStateInner(lm, encodec, d, c, tok) ==
    [kind |-> "state", lm_model |-> lm, encodec_model |-> encodec, device |-> d,
     config |-> c, text_tokenizer |-> tok]

\* lines 90-91 and 122: the block ends, new returns Ok and run wraps the
\* state in an Arc
NewReturn ==
    /\ pc = "new"
    /\ Done("new")
    /\ state' = AppStateInner(lm_model, encodec_model, device, config, text_tokenizer)
    /\ new_ret' = Ok(state')
    /\ device' = NoDevice /\ dtype' = "none" /\ lm_model' = NoModel
    /\ encodec_device' = NoDevice /\ encodec_model' = NoModel
    /\ text_tokenizer' = NoTokenizer /\ warmup' = NoWarmup
    /\ UNCHANGED <<callRets, run_ret, failed_at, runLocals, listener, conns, log>>

\* lines 123-131
RunRouter ==
    /\ pc = "router"
    /\ Done("router")
    /\ log' = log \cup {Event("standalone worker listening on", 0, sock_addr.ip[1])}
    /\ UNCHANGED <<retVars, runLocals, newLocals, state, listener, conns>>

\* lines 132-134: bind_rustls(..).serve(..); free: whether the address can
\* be bound
RunBind ==
    /\ pc = "bind"
    /\ \E free \in BOOLEAN :
         IF free
         THEN /\ Done("bind")
              /\ listener' = sock_addr
              /\ UNCHANGED <<retVars, runLocals, newLocals, state, conns, log>>
         ELSE Fail("bind") /\ UNCHANGED callRets

-----------------------------------------------------------------------------
(* Serving: the router of lines 123-130, stream_handler (lines 101-110)    *)
(* and handle_socket (lines 95-99).  Every accepted connection carries one *)
(* request and runs as a task of its own.                                  *)

ChatPath == "/api/chat"
Peers == {"peer1", "peer2"}
Queries == {"q1", "q2"}

Request(path, upgrade, query) == [path |-> path, upgrade |-> upgrade, query |-> query]

Requests ==
    {Request(ChatPath, TRUE, q) : q \in Queries}
    \cup {Request(ChatPath, TRUE, "undecodable"),
          Request(ChatPath, FALSE, "q1"),
          Request("/index.html", FALSE, "q1")}

NoSession == [kind |-> "none"]

\* stream_both::StreamingModel::new(&state, req): handles to the shared
\* state with the connection's session parameters
StreamingModelNew(st, req) == [kind |-> "session", state |-> st, config |-> req]

Conn(st, peer, req, sm) == [st |-> st, peer |-> peer, req |-> req, sm |-> sm]

\* the upgrade extractor accepting every request
WsExtractsAlways(req) == TRUE

\* the extractors of stream_handler, in the order of its parameters
WsExtracts(req) == req.upgrade
QueryExtracts(req) == req.query \in Queries

Accepting == pc = "serving" /\ Len(conns) < MaxConns

\* serving a request with a step run on the shared language model
ServeFrameSteppingSharedModel ==
    /\ state' = [state EXCEPT !.lm_model = Stepped(@)]
    /\ UNCHANGED <<envVars, cfgVars, config, args, pc, hist, retVars, runLocals,
                   newLocals, listener>>

ServeFrame ==
    UNCHANGED <<envVars, cfgVars, config, args, pc, hist, retVars, runLocals,
                newLocals, state, listener>>

\* lines 125-128: any other path goes to the static files
ServeStatic(req, peer) ==
    /\ Accepting
    /\ req.path # ChatPath
    /\ conns' = Append(conns, Conn("static", peer, req, NoSession))
    /\ log' = log
    /\ ServeFrame

\* lines 102-105: a request an extractor rejects never enters the handler
RejectRequest(req, peer) ==
    /\ Accepting
    /\ req.path = ChatPath
    /\ ~ (WsExtracts(req) /\ QueryExtracts(req))
    /\ conns' = Append(conns,
                       Conn(IF ~ WsExtracts(req) THEN "rejected_upgrade"
                            ELSE "rejected_query",
                            peer, req, NoSession))
    /\ log' = log
    /\ ServeFrame

\* the body of stream_handler admitting one known peer only
StreamHandlerAllowList(req, peer) ==
    /\ Accepting
    /\ req.path = ChatPath
    /\ WsExtracts(req) /\ QueryExtracts(req)
    /\ peer = "peer1"
    /\ log' = log \cup {Event("received connection", Len(conns) + 1, peer)}
    /\ conns' = Append(conns,
                       Conn("upgrading", peer, req, StreamingModelNew(state, req.query)))
    /\ ServeFrame

\* lines 107-109: the body of stream_handler
StreamHandler(req, peer) ==
    /\ Accepting
    /\ req.path = ChatPath
    /\ WsExtracts(req) /\ QueryExtracts(req)
    /\ log' = log \cup {Event("received connection", Len(conns) + 1, peer)}
    /\ conns' = Append(conns,
                       Conn("upgrading", peer, req, StreamingModelNew(state, req.query)))
    /\ ServeFrame

\* the callback handing over a session built anew with the first parameters
OnUpgradeWithFreshSession(c) ==
    /\ c \in 1..Len(conns)
    /\ conns[c].st = "upgrading"
    /\ conns' = [conns EXCEPT ![c].st = "running",
                              ![c].sm = StreamingModelNew(state, "q1")]
    /\ log' = log
    /\ ServeFrame

\* line 109: the upgrade completes and the callback calls handle_socket,
\* which calls stream_both::handle_socket(socket, sm, None)
OnUpgrade(c) ==
    /\ c \in 1..Len(conns)
    /\ conns[c].st = "upgrading"
    /\ conns' = [conns EXCEPT ![c].st = "running"]
    /\ log' = log
    /\ ServeFrame

\* line 109: the upgrade fails; the callback is dropped with its session
OnFailedUpgrade(c) ==
    /\ c \in 1..Len(conns)
    /\ conns[c].st = "upgrading"
    /\ conns' = [conns EXCEPT ![c].st = "upgrade_failed", ![c].sm = NoSession]
    /\ log' = log
    /\ ServeFrame

\* line 96: the streaming handler returns Ok
HandleSocketOk(c) ==
    /\ c \in 1..Len(conns)
    /\ conns[c].st = "running"
    /\ conns' = [conns EXCEPT ![c].st = "closed", ![c].sm = NoSession]
    /\ log' = log
    /\ ServeFrame

HandlerErrors == {"SessionError"}

\* line 96 with the result discarded: let _ = handle_socket(..).await
HandleSocketErrUnlogged(c, e) ==
    /\ c \in 1..Len(conns)
    /\ conns[c].st = "running"
    /\ conns' = [conns EXCEPT ![c].st = "failed", ![c].sm = NoSession]
    /\ log' = log
    /\ ServeFrame

\* lines 96-98: the streaming handler returns Err(err)
HandleSocketErr(c, e) ==
    /\ c \in 1..Len(conns)
    /\ conns[c].st = "running"
    /\ conns' = [conns EXCEPT ![c].st = "failed", ![c].sm = NoSession]
    /\ log' = log \cup {Event("handle_socket", c, e)}
    /\ ServeFrame

-----------------------------------------------------------------------------
(* Specifications *)

\* nothing of run has happened
IdleRun ==
    /\ hist = <<>>
    /\ device_ret = NoResult /\ decode_ret = NoResult
    /\ new_ret = NoResult /\ run_ret = NoResult
    /\ failed_at = "none"
    /\ cert_pem = NoPath /\ key_pem = NoPath
    /\ tls_config = NoTls /\ sock_addr = NoAddr
    /\ device = NoDevice /\ dtype = "none" /\ lm_model = NoModel
    /\ encodec_device = NoDevice /\ encodec_model = NoModel
    /\ text_tokenizer = NoTokenizer /\ warmup = NoWarmup
    /\ state = NoState /\ listener = NoAddr /\ conns = <<>> /\ log = {}

\* Config::load and Config::cert_file called on their own
KnownPaths == {<<"v", "cert.pem">>, <<"/", "abs.pem">>}
CertNames == {<<"cert.pem">>, <<"key.pem">>, <<"/", "abs.pem">>}

Load ==
    /\ pc = "load"
    /\ loadRes = NoResult
    /\ loadRes' = LoadResult(file, env)
    /\ config' = IF loadRes'.ok THEN loadRes'.val ELSE config
    /\ UNCHANGED <<envVars, certRes, runVars>>

CertFile(name) ==
    /\ pc = "load"
    /\ loadRes.ok
    /\ certRes' = [res |-> cert_file(config, fs, name), name |-> name]
    /\ UNCHANGED <<envVars, loadRes, config, runVars>>

InitConfig ==
    /\ env \in Envs
    /\ fs \in [KnownPaths -> FileKinds]
    /\ file \in Files
    /\ cuda_is_available = FALSE /\ metal_is_available = FALSE
    /\ encodec_file_config = <<24000, 75>>
    /\ loadRes = NoResult
    /\ certRes = [res |-> NoResult, name |-> <<>>]
    /\ config = NoConfig
    /\ args = [cpu |-> FALSE]
    /\ pc = "load"
    /\ IdleRun

NextConfig ==
    \/ Load
    \/ \E name \in CertNames : CertFile(name)

SpecConfig == InitConfig /\ [][NextConfig]_vars

\* the configurations run is called with: loaded, with nothing to substitute
RunPaths == [f \in PathFields |-> IF f = "cert_dir" THEN <<"v">> ELSE <<f>>]
RunConfigs ==
    {Doc(RunPaths, addr, use_cpu) :
        addr \in {<<"0.0.0.0">>, <<"localhost">>}, use_cpu \in BOOLEAN}
RunFiles == {<<"v", "cert.pem">>, <<"v", "key.pem">>}

\* the state main calls run in, or new is called in
InitLoaded ==
    /\ env = <<>>
    /\ config \in RunConfigs
    /\ file = config
    /\ loadRes = Ok(config)
    /\ certRes = [res |-> NoResult, name |-> <<>>]
    /\ cuda_is_available \in BOOLEAN /\ metal_is_available \in BOOLEAN
    /\ args \in [cpu : BOOLEAN]
    /\ IdleRun

\* AppStateInner::new called on its own
InitNew ==
    /\ InitLoaded
    /\ fs = [p \in RunFiles |-> "file"]
    /\ encodec_file_config \in CodecConfigs
    /\ pc = "device"

NextNew ==
    \/ NewDevice \/ NewLmModel \/ NewEncodecModel \/ NewTextTokenizer
    \/ WarmLog \/ WarmForward \/ WarmDepformerSample \/ WarmFakePcm \/ WarmEncodeStep
    \/ WarmDecodeStep \/ WarmCheckOutput \/ WarmSynchronize \/ NewReturn

SpecNew == InitNew /\ [][NextNew]_vars

\* run
Init ==
    /\ InitLoaded
    /\ fs \in [RunFiles -> FileKinds]
    /\ encodec_file_config = <<24000, 75>>
    /\ pc = "cert_pem"

Next ==
    \/ RunCertPem \/ RunKeyPem \/ RunTlsConfig \/ RunSockAddr
    \/ NextNew
    \/ RunRouter \/ RunBind
    \/ \E req \in Requests, peer \in Peers :
          \/ ServeStatic(req, peer)
          \/ RejectRequest(req, peer)
          \/ StreamHandler(req, peer)
    \/ \E c \in 1..MaxConns :
          \/ OnUpgrade(c)
          \/ OnFailedUpgrade(c)
          \/ HandleSocketOk(c)
          \/ \E e \in HandlerErrors : HandleSocketErr(c, e)

Spec == Init /\ [][Next]_vars

-----------------------------------------------------------------------------
(* Claims *)

\* a session was constructed for connection c
SessionBuilt(c) ==
    conns[c].st \in {"upgrading", "running", "closed", "failed", "upgrade_failed"}

WarmupSteps ==
    {"forward", "depformer_sample", "encode_step", "decode_step",
     "check_output", "synchronize"}

\* C1: the socket is bound and sessions are constructed or handed to the
\* streaming handler only after AppStateInner::new returned Ok: the
\* language-model pass, the codec pass with a non-empty decode output and
\* the synchronization all succeeded, and every session is built from that
\* state, whose models and tokenizer are loaded.
C1_ServeOnlyAfterWarmup ==
    (listener # NoAddr \/ \E c \in 1..Len(conns) : SessionBuilt(c))
    => /\ new_ret.ok
       /\ new_ret.val = state
       /\ WarmupSteps \subseteq Range(hist)
       /\ decode_ret = Ok("pcm")
       /\ state.lm_model.kind = "lm"
       /\ state.encodec_model.kind = "encodec"
       /\ state.text_tokenizer.kind = "tokenizer"
       /\ \A c \in 1..Len(conns) :
            conns[c].sm # NoSession => conns[c].sm.state = state

C1_Witness == \E c \in 1..Len(conns) : conns[c].st = "running"

\* C2: when a startup step fails run returns the error, no socket is open,
\* no connection was admitted and neither the state nor any model is kept.
C2_StartupFailureIsFatal ==
    /\ failed_at # "none" <=> pc = "failed"
    /\ pc = "failed"
       => /\ run_ret = Err(ErrKind(failed_at))
          /\ listener = NoAddr
          /\ conns = <<>>
          /\ state = NoState
          /\ lm_model = NoModel /\ encodec_model = NoModel
          /\ text_tokenizer = NoTokenizer /\ tls_config = NoTls

C2_Witness == pc = "failed" /\ failed_at = "bind" /\ new_ret.ok

\* the device the priority order names
ExpectedDevice ==
    CASE args.cpu -> Cpu
      [] ~ args.cpu /\ cuda_is_available -> Cuda(0)
      [] ~ args.cpu /\ ~ cuda_is_available /\ metal_is_available -> Metal(0)
      [] OTHER -> Cpu

\* C3 as stated: device always returns one of the three devices, the one
\* the priority order names.
C3_AlwaysADevice ==
    device_ret # NoResult => device_ret = Ok(ExpectedDevice)

\* C3 amended: when device returns a device it is the one the priority
\* order names; it returns an error only when building the accelerator
\* device that order names fails.
C3_DevicePriority ==
    device_ret # NoResult
    => IF device_ret.ok
       THEN device_ret.val = ExpectedDevice
       ELSE device_ret.err = "DeviceInit" /\ ExpectedDevice.kind \in {"Cuda", "Metal"}

C3_Witness ==
    device_ret = Ok(Cuda(0)) /\ cuda_is_available /\ metal_is_available

\* C4: the language model is loaded in BF16 exactly when the selected
\* device is CUDA; on Metal and on the CPU, forced or not, it is F32.
C4_ReducedPrecisionOnlyOnCuda ==
    \A m \in {lm_model, IF state = NoState THEN NoModel ELSE state.lm_model} :
        m # NoModel
        => /\ m.device = device_ret.val
           /\ m.dtype = "BF16" <=> m.device.kind = "Cuda"
           /\ m.device.kind \in {"Metal", "Cpu"} => m.dtype = "F32"
           /\ args.cpu => m.dtype = "F32"

C4_Witness == lm_model # NoModel /\ lm_model.device.kind = "Metal"

\* C5: when decode_step returns no output without an error, new fails with
\* EmptyOutput after the encode step succeeded, and never synchronizes.
C5_EmptyOutputFails ==
    (decode_ret = Ok("none") /\ pc # "check_output")
    => /\ new_ret = Err("EmptyOutput")
       /\ failed_at = "check_output"
       /\ "encode_step" \in Range(hist)
       /\ "synchronize" \notin Range(hist)
       /\ state = NoState

C5_Witness == decode_ret = Ok("none") /\ pc = "failed"

CodecWarmupSteps ==
    {"fake_pcm", "encode_step", "decode_step", "check_output"}

\* C6: when the models and the tokenizer loaded and the forward step or
\* the dependent-sampling step fails, new fails with WarmupFailed, returns
\* no state and runs no codec warm-up step.
C6_LmWarmupFailure ==
    failed_at \in {"forward", "depformer_sample"}
    => /\ {"lm_model", "encodec_model", "text_tokenizer"} \subseteq Range(hist)
       /\ new_ret = Err("WarmupFailed")
       /\ state = NoState
       /\ Range(hist) \cap CodecWarmupSteps = {}
       /\ decode_ret = NoResult

C6_Witness == failed_at = "depformer_sample"

\* C7: the synthetic buffer is 1 x 1 x n with n the least whole number of
\* frames covering sample_rate / frame_rate: 320 for 24000 / 75, and the
\* quotient rounded up when the division leaves a remainder.
C7_FrameLengthIsCeiling ==
    warmup.fake_pcm # NoTensor
    => LET sr == encodec_model.sample_rate
           fr == encodec_model.frame_rate
           n == warmup.fake_pcm.shape[3]
       IN /\ warmup.fake_pcm.shape = <<1, 1, n>>
          /\ n * fr >= sr
          /\ (n - 1) * fr < sr
          /\ (sr = 24000 /\ fr = 75) => n = 320

C7_Witness ==
    /\ warmup.fake_pcm # NoTensor
    /\ encodec_model.sample_rate % encodec_model.frame_rate # 0

\* the path cert_file(name) is about
CertPath == Join(config.cert_dir, certRes.name)

\* C8: cert_file(name) returns cert_dir joined with name when that path is
\* a regular file and fails with MissingFile otherwise, whether the path is
\* absent or is not a regular file; the configuration stays as loaded.
C8_CertFileChecksRegularFile ==
    certRes.res # NoResult
    => /\ IF CertPath \in DOMAIN fs /\ fs[CertPath] = "file"
          THEN certRes.res = Ok(CertPath)
          ELSE certRes.res = Err("MissingFile")
       /\ config = loadRes.val

C8_Witness ==
    /\ certRes.res = Err("MissingFile")
    /\ CertPath \in DOMAIN fs
    /\ fs[CertPath] = "dir"

\* a template with every placeholder replaced by the value of its variable,
\* or by nothing when the variable is unset
RECURSIVE Resolved(_, _)
Resolved(e, s) ==
    IF Len(s) = 0 THEN <<>>
    ELSE LET c == s[Len(s)]
             n == IF c = "${X}" THEN "X" ELSE "Y"
         IN Resolved(e, SubSeq(s, 1, Len(s) - 1))
            \o (IF c \notin {"${X}", "${Y}"} THEN <<c>>
                ELSE IF n \in DOMAIN e THEN e[n]
                ELSE <<>>)

\* C9: after a successful load each of the six path-like fields is its
\* value in the file with the placeholders resolved; load fails only on a
\* file that cannot be read or parsed, never on an unset variable.
C9_LoadSubstitutesPathFields ==
    /\ loadRes.ok
       => /\ config = loadRes.val
          /\ \A f \in {"static_dir", "cert_dir", "log_dir", "text_tokenizer_file",
                       "encodec_model_file", "lm_model_file"} :
                config[f] = Resolved(env, file[f])
    /\ (loadRes # NoResult /\ ~ loadRes.ok) => file \in {Unreadable, Malformed}

C9_Witness ==
    /\ pc = "load"
    /\ loadRes.ok
    /\ "X" \notin DOMAIN env
    /\ "Y" \in DOMAIN env
    /\ file.cert_dir = <<"${X}", "${Y}">>
    /\ config.cert_dir = <<"u", "w">>

\* the streaming handler of connection c returns an error in this step
HandlerFails(c) == conns[c].st = "running" /\ conns'[c].st = "failed"

\* C10: a handler error is logged with its detail and ends only the task
\* of its connection: the state, the other connections and run are as they
\* were, and the server still admits connections.
C10_HandlerErrorIsConnectionScoped ==
    /\ [](\A c \in 1..Len(conns) :
            conns[c].st = "failed"
            => /\ \E e \in HandlerErrors : Event("handle_socket", c, e) \in log
               /\ pc = "serving"
               /\ run_ret = NoResult
               /\ listener # NoAddr
               /\ Len(conns) < MaxConns
                  => ENABLED StreamHandler(Request(ChatPath, TRUE, "q1"), "peer1"))
    /\ [][\A c \in 1..Len(conns) :
            HandlerFails(c)
            => /\ state' = state
               /\ pc' = pc
               /\ listener' = listener
               /\ Len(conns') = Len(conns)
               /\ \A d \in 1..Len(conns) : d # c => conns'[d] = conns[d]]_vars

C10_Witness ==
    /\ Len(conns) = 2
    /\ conns[1].st = "failed"
    /\ conns[2].st = "running"

\* the body of stream_handler ran for connection c
HandlerEntered(c) ==
    \E e \in log : e.ev = "received connection" /\ e.conn = c

\* C11: a request to /api/chat that is no upgrade request is answered by
\* the rejection of the upgrade extractor; for it, and for a request to
\* any other path, no session is constructed and the streaming handler is
\* never invoked.
C11_NonUpgradeIsRejected ==
    \A c \in 1..Len(conns) :
        /\ (conns[c].req.path = ChatPath /\ ~ conns[c].req.upgrade)
           => /\ conns[c].st = "rejected_upgrade"
              /\ conns[c].sm = NoSession
              /\ ~ HandlerEntered(c)
        /\ conns[c].req.path # ChatPath
           => /\ conns[c].st = "static"
              /\ conns[c].sm = NoSession
              /\ ~ HandlerEntered(c)

C11_Witness ==
    /\ Len(conns) = 2
    /\ conns[1].st = "rejected_upgrade"
    /\ conns[2].st = "static"

\* the session of connection c is the one line 108 builds for its request
SessionOfRequest(c) ==
    conns[c].sm = StreamingModelNew(state, conns[c].req.query)

\* C12 as stated: every constructed session is built from the state and
\* the request's parameters, belongs to a connection that is or is being
\* established, and is handed to the streaming handler.
C12_EverySessionIsHanded ==
    \A c \in 1..Len(conns) :
        /\ conns[c].st \in {"upgrading", "running"} => SessionOfRequest(c)
        /\ HandlerEntered(c) => conns[c].st \in {"upgrading", "running", "closed", "failed"}

\* C12 amended: one session is built per request that passes the
\* extractors, from the shared state and that request's parameters, before
\* the upgrade completes; a completed upgrade hands that very session to
\* the streaming handler once, and a failed upgrade drops it unhanded.
C12_OneSessionPerUpgrade ==
    /\ [](\A c \in 1..Len(conns) :
            /\ HandlerEntered(c) <=> SessionBuilt(c)
            /\ SessionBuilt(c)
               => /\ conns[c].req.path = ChatPath
                  /\ conns[c].req.upgrade
                  /\ conns[c].req.query \in Queries
            /\ IF conns[c].st \in {"upgrading", "running"}
               THEN SessionOfRequest(c)
               ELSE conns[c].sm = NoSession)
    /\ [][\A c \in 1..Len(conns) :
            /\ (conns'[c].st = "running" /\ conns[c].st # "running")
               => conns[c].st = "upgrading" /\ conns'[c].sm = conns[c].sm
            /\ conns[c].st # "upgrading" => conns'[c].st # "upgrading"
            /\ conns[c].st \in {"closed", "failed", "upgrade_failed"}
               => conns'[c] = conns[c]]_vars

C12_Witness ==
    /\ Len(conns) = 2
    /\ conns[1].st = "upgrade_failed"
    /\ conns[2].st = "running"
    /\ conns[2].req.query = "q2"

\* the number of times line 91 assembled a state
StatesBuilt == Cardinality({i \in 1..Len(hist) : hist[i] = "new"})

\* C13: the state is assembled once per run, after the warm-up succeeded
\* and before serving; while serving nothing changes it, and the sessions
\* of all connections hold that one state.
C13_StateBuiltOnceAndShared ==
    /\ [](/\ StatesBuilt <= 1
          /\ state # NoState
             => /\ StatesBuilt = 1
                /\ new_ret = Ok(state)
                /\ WarmupSteps \subseteq Range(hist)
          /\ (pc = "serving" \/ conns # <<>>) => state # NoState
          /\ \A c \in 1..Len(conns) :
                conns[c].sm # NoSession => conns[c].sm.state = state)
    /\ [][state' # state
          => \/ state = NoState /\ pc = "new" /\ listener = NoAddr
             \/ state' = NoState /\ pc = "bind" /\ pc' = "failed"]_vars

C13_Witness ==
    /\ Len(conns) = 2
    /\ conns[1].st = "running"
    /\ conns[2].st = "running"
    /\ conns[1].req.query # conns[2].req.query

\* C14: an address that does not parse never fails run: the server binds
\* the loopback address ::1 with the configured port; an address that
\* parses is bound as it is, with the configured port.
C14_AddrParseFallback ==
    /\ failed_at # "sock_addr"
    /\ \A a \in {sock_addr, listener} :
          a # NoAddr
          => /\ a.port = config.port
             /\ a.ip = IF config.addr \in IpAddrs THEN config.addr ELSE <<"::1">>

C14_Witness ==
    /\ pc = "serving"
    /\ config.addr = <<"localhost">>
    /\ listener = [kind |-> "addr", ip |-> <<"::1">>, port |-> config.port]

\* the events run emits whatever the configured address is
AddressBlindEvents ==
    {"warming up the model", "model is ready to roll!", "standalone worker listening on"}

\* event e records that the configured address did not parse: it is an
\* event of its own, or it carries the configured text
RecordsFallback(e) ==
    e.ev \notin AddressBlindEvents \/ e.info = config.addr[1]

\* C15: when the configured address does not parse, an event recording the
\* parse failure or the fallback is in the log by the time the socket is
\* bound.
C15_FallbackIsLogged ==
    (listener # NoAddr /\ config.addr \notin IpAddrs)
    => \E e \in log : RecordsFallback(e)

\* the loaded models, as locals of new and as fields of the returned state
LoadedLmModels ==
    {lm_model, IF state = NoState THEN NoModel ELSE state.lm_model} \ {NoModel}
LoadedEncodecModels ==
    {encodec_model, IF state = NoState THEN NoModel ELSE state.encodec_model} \ {NoModel}

\* C16: the codec model is on the CPU when use_cpu_for_encodec is set and
\* on the selected device otherwise; the language model is on the selected
\* device whatever the flag is.
C16_CodecDeviceFollowsFlag ==
    /\ \A m \in LoadedEncodecModels :
          m.device = IF config.use_cpu_for_encodec THEN [kind |-> "Cpu"]
                     ELSE device_ret.val
    /\ \A m \in LoadedLmModels : m.device = device_ret.val

C16_Witness ==
    /\ config.use_cpu_for_encodec
    /\ state # NoState
    /\ state.lm_model.device.kind = "Cuda"
    /\ state.encodec_model.device.kind = "Cpu"

\* what the server decided about the request of connection c
Outcome(c) == IF SessionBuilt(c) THEN "admitted" ELSE conns[c].st

\* C17: the peer address of an admitted connection is logged and decides
\* nothing: whether a request is served, rejected or admitted does not
\* depend on the peer, and connections with equal requests get the same
\* outcome and equal sessions.
C17_PeerDoesNotDecideAdmission ==
    /\ \A req \in Requests, p \in Peers \ {"peer1"} :
          /\ ENABLED StreamHandler(req, p) <=> ENABLED StreamHandler(req, "peer1")
          /\ ENABLED RejectRequest(req, p) <=> ENABLED RejectRequest(req, "peer1")
          /\ ENABLED ServeStatic(req, p) <=> ENABLED ServeStatic(req, "peer1")
    /\ \A c \in 1..Len(conns) :
          HandlerEntered(c) => Event("received connection", c, conns[c].peer) \in log
    /\ \A c \in 1..Len(conns), d \in 1..Len(conns) :
          conns[c].req = conns[d].req
          => /\ Outcome(c) = Outcome(d)
             /\ (conns[c].sm # NoSession /\ conns[d].sm # NoSession)
                => conns[c].sm = conns[d].sm

C17_Witness ==
    /\ Len(conns) = 2
    /\ conns[1].req = conns[2].req
    /\ conns[1].peer # conns[2].peer
    /\ conns[1].st = "running" /\ conns[2].st = "running"
    /\ conns[1].sm = conns[2].sm

\* the steps C18 names, in the order it names them
NamedStepOrder ==
    <<"device", "lm_model", "encodec_model", "text_tokenizer", "forward",
      "depformer_sample", "encode_step", "decode_step", "check_output",
      "synchronize", "new">>

\* the named steps executed so far, in the order of their execution
NamedStepsDone ==
    LET Named(s) == \E i \in 1..Len(NamedStepOrder) : NamedStepOrder[i] = s
    IN SelectSeq(hist, Named)

\* C18: the steps of new run in the named order, the state is assembled
\* only after all of them, the synchronization last before it, and a
\* failing synchronization makes new fail without a state.
C18_NewStepOrder ==
    /\ NamedStepsDone = SubSeq(NamedStepOrder, 1, Len(NamedStepsDone))
    /\ (new_ret.ok \/ state # NoState)
       => /\ NamedStepsDone = NamedStepOrder
          /\ decode_ret = Ok("pcm")
    /\ failed_at = "synchronize"
       => /\ ~ new_ret.ok /\ new_ret # NoResult
          /\ state = NoState
          /\ NamedStepsDone = SubSeq(NamedStepOrder, 1, 9)

C18_Witness == new_ret.ok /\ Len(hist) = Len(NewOrder)

\* the synchronization of new failed and new returned its error
C18_WitnessSyncFailure == failed_at = "synchronize" /\ ~ new_ret.ok

\* cert.pem or key.pem is no regular file of the certificate directory
CertOrKeyMissing ==
    \E name \in {<<"cert.pem">>, <<"key.pem">>} :
        LET p == config.cert_dir \o name
        IN p \notin DOMAIN fs \/ fs[p] # "file"

\* C19: cert.pem and then key.pem are looked up before every other step of
\* run; when either is missing run fails with MissingFile and has built no
\* TLS context, selected no device, loaded nothing and warmed up nothing.
C19_CertAndKeyFirst ==
    /\ Len(hist) >= 1 => hist[1] = "cert_pem"
    /\ Len(hist) >= 2 => hist[2] = "key_pem"
    /\ CertOrKeyMissing
       => /\ pc \in {"cert_pem", "key_pem", "failed"}
          /\ pc = "failed"
             => /\ failed_at \in {"cert_pem", "key_pem"}
                /\ run_ret = Err("MissingFile")
          /\ Range(hist) \subseteq {"cert_pem"}
          /\ tls_config = NoTls
          /\ device_ret = NoResult /\ new_ret = NoResult
          /\ lm_model = NoModel /\ encodec_model = NoModel
          /\ text_tokenizer = NoTokenizer
          /\ state = NoState /\ listener = NoAddr /\ log = {}

C19_Witness ==
    /\ failed_at = "key_pem"
    /\ hist = <<"cert_pem">>
    /\ fs[<<"v", "key.pem">>] = "absent"
    /\ run_ret = Err("MissingFile")

\* the warm-up steps that advance the streaming state of a model
SteppingDone ==
    Range(hist) \cap {"forward", "depformer_sample", "encode_step", "decode_step"}

\* C20: the warm-up steps run on the block's clones only: the loaded
\* models, and the models of the returned state, carry the streaming state
\* they had right after loading.
C20_WarmupRunsOnClones ==
    /\ \A m \in LoadedLmModels :
          m = LmModel(config.lm_model_file, m.dtype, m.device)
    /\ \A m \in LoadedEncodecModels :
          m = EncodecModel(config.encodec_model_file, config.encodec_num_codebooks,
                           m.device, encodec_file_config)
    /\ warmup.lm_model # NoModel
       => /\ warmup.lm_model.steps = Cardinality(SteppingDone \cap {"forward", "depformer_sample"})
          /\ [warmup.lm_model EXCEPT !.steps = 0] = lm_model
    /\ warmup.encodec_model # NoModel
       => /\ warmup.encodec_model.steps = Cardinality(SteppingDone \cap {"encode_step", "decode_step"})
          /\ [warmup.encodec_model EXCEPT !.steps = 0] = encodec_model

C20_Witness ==
    /\ state # NoState
    /\ Cardinality(SteppingDone) = 4
    /\ state.lm_model.steps = 0
    /\ state.encodec_model.steps = 0

====
